---- MODULE Spec2Model ----
(***************************************************************************)
(* Model of cheatmd's variable resolution engine (package ui):             *)
(*   - resolve.go : resolveAllVariables, collectVariables, resolveVar,     *)
(*                  findCommandVars, splitLines, executeOutput             *)
(*   - the TUI models varSelectModel / varInputModel and their wrappers    *)
(*     SelectWithTUI / PromptWithTUI                                       *)
(* A Go string is modelled as a sequence of one-character strings, so that *)
(* scanning, trimming and splitting are computed as the code computes them.*)
(***************************************************************************)
EXTENDS Integers, Sequences, FiniteSets, TLC

VARIABLES
    pc,          \* position of the running function
    vars,        \* []varState of resolveAllVariables
    currentIdx,  \* the session cursor (0-based, as in the code)
    ret,         \* what resolveAllVariables returned / the process exit
    cheatScope,  \* cheat.Scope, the command record's scope
    shellRes,    \* result of exec.RunShell in the current resolveVar call
    comp,        \* which interactive component resolveVar invoked
    inpM,        \* the varInputModel of the running text entry
    selM,        \* the varSelectModel of the running selector
    scope,       \* the live scope handed to the current resolveVar call
    lastKey,     \* what ended the last component: a key, or "error"
    runErr,      \* whether p.Run() of the component failed
    allEnter,    \* history: every step so far ended with Enter
    entered      \* history: the texts submitted while allEnter holds

\* argument and result of the function a function-level specification applies
VARIABLES fnArg, fnRes

sessionVars == <<pc, vars, currentIdx, ret, cheatScope, shellRes, comp,
                 inpM, selM, scope, lastKey, runErr, allEnter, entered>>
fnVars == <<fnArg, fnRes>>

\* collectVariables: its arguments, its locals and its result
VARIABLES
    cheat,       \* the command: Command, Imports, Vars
    index,       \* index.Modules: module name -> Imports, Vars
    varDefs,     \* the map of collected definitions
    seen,        \* the visited import names
    stack,       \* the running calls of collectFromImports
    collected    \* the returned []varState

collVars == <<cheat, index, varDefs, seen, stack, collected>>

allVars == <<sessionVars, fnVars, collVars>>

\* everything but the position and a function's argument and result
nonFnVars == <<vars, currentIdx, ret, cheatScope, shellRes, comp, inpM, selM,
               scope, lastKey, runErr, allEnter, entered, collVars>>

\* ------------------------------------------------------------------ bounds

\* most variables a session is started with
MaxVars == 3

\* longest output of a value command the resolver is applied to
MaxOutLen == 3

\* longest import list of a command or a module
MaxImports == 2

\* longest command template the scanner is applied to (the spec's example,
\* which is longer, is scanned too)
MaxCmdLen == 5

\* longest value command the scope is substituted into
MaxShellLen == 3

\* ----------------------------------------------------------------- strings

\* the sentinel the TUI wrappers and the session use for "exit completely"
EXIT == <<"_", "_", "E", "X", "I", "T", "_", "_">>

\* unicode.IsSpace on the characters the model uses
IsSpace(c) == c \in {" ", "\t", "\n", "\r"}

RECURSIVE TrimLeft(_)
TrimLeft(s) ==
    IF s = <<>> THEN s
    ELSE IF IsSpace(Head(s)) THEN TrimLeft(Tail(s)) ELSE s

RECURSIVE TrimRight(_)
TrimRight(s) ==
    IF s = <<>> THEN s
    ELSE IF IsSpace(s[Len(s)]) THEN TrimRight(SubSeq(s, 1, Len(s) - 1)) ELSE s

\* strings.TrimSpace
TrimSpace(s) == TrimRight(TrimLeft(s))

\* strings.Split(s, sep) for a one-character separator
RECURSIVE Split(_, _)
Split(s, sep) ==
    IF \E i \in 1..Len(s) : s[i] = sep
    THEN LET i == CHOOSE i \in 1..Len(s) :
                      s[i] = sep /\ \A k \in 1..(i - 1) : s[k] # sep
         IN  <<SubSeq(s, 1, i - 1)>> \o Split(SubSeq(s, i + 1, Len(s)), sep)
    ELSE <<s>>

RECURSIVE KeepTrimmed(_)
KeepTrimmed(segs) ==
    IF segs = <<>> THEN <<>>
    ELSE LET trimmed == TrimSpace(Head(segs))
         IN  IF trimmed # <<>> THEN <<trimmed>> \o KeepTrimmed(Tail(segs))
             ELSE KeepTrimmed(Tail(segs))

\* splitLines: the non-empty trimmed lines of s, in order
splitLines(s) == KeepTrimmed(Split(s, "\n"))

\* strings.ToLower on ASCII letters
UpperCase == <<"A", "B", "C", "D", "E", "F", "G", "H", "I", "J", "K", "L", "M",
               "N", "O", "P", "Q", "R", "S", "T", "U", "V", "W", "X", "Y", "Z">>
LowerCase == <<"a", "b", "c", "d", "e", "f", "g", "h", "i", "j", "k", "l", "m",
               "n", "o", "p", "q", "r", "s", "t", "u", "v", "w", "x", "y", "z">>
ToLowerChar(c) ==
    IF \E i \in 1..Len(UpperCase) : UpperCase[i] = c
    THEN LowerCase[CHOOSE i \in 1..Len(UpperCase) : UpperCase[i] = c]
    ELSE c
ToLower(s) == [i \in 1..Len(s) |-> ToLowerChar(s[i])]

\* strings.Fields: the maximal runs of non-space characters
RECURSIVE Fields(_)
Fields(s) ==
    LET t == TrimLeft(s)
    IN  IF t = <<>> THEN <<>>
        ELSE LET n == IF \E i \in 1..Len(t) : IsSpace(t[i])
                      THEN (CHOOSE i \in 1..Len(t) :
                                IsSpace(t[i]) /\ \A k \in 1..(i - 1) : ~IsSpace(t[k])) - 1
                      ELSE Len(t)
             IN  <<SubSeq(t, 1, n)>> \o Fields(SubSeq(t, n + 1, Len(t)))

\* strings.Contains
Contains(s, w) ==
    \E i \in 0..(Len(s) - Len(w)) : SubSeq(s, i + 1, i + Len(w)) = w

\* ------------------------------------------------------- helpers of the TUI

maxInt(a, b) == IF a > b THEN a ELSE b

clamp(v, lo, hi) == IF v < lo THEN lo ELSE IF v > hi THEN hi ELSE v

\* every word is a substring of s
matchesAllWords(s, words) == \A i \in 1..Len(words) : Contains(s, words[i])

\* ---------------------------------------------------------- varSelectModel

\* the model before any program runs it
SelIdle == [options |-> <<>>, filtered |-> <<>>, cursor |-> 0, textInput |-> <<>>,
            selected |-> <<>>, cancelled |-> FALSE]

\* newVarSelectModel: the prefill goes to the text input, filtered = options
newVarSelectModel(options, prefill) ==
    [options |-> options, filtered |-> options, cursor |-> 0,
     textInput |-> IF prefill # <<>> THEN prefill ELSE <<>>,
     selected |-> <<>>, cancelled |-> FALSE]

RECURSIVE KeepMatching(_, _)
KeepMatching(opts, words) ==
    IF opts = <<>> THEN <<>>
    ELSE IF matchesAllWords(ToLower(Head(opts)), words)
         THEN <<Head(opts)>> \o KeepMatching(Tail(opts), words)
         ELSE KeepMatching(Tail(opts), words)

\* varSelectModel.filterOptions
filterOptions(m) ==
    LET query == TrimSpace(ToLower(m.textInput))
        f     == IF query = <<>> THEN m.options
                 ELSE KeepMatching(m.options, Fields(query))
    IN  [m EXCEPT !.filtered = f,
                  !.cursor = clamp(m.cursor, 0, maxInt(0, Len(f) - 1))]

\* a cursor that wraps around at the ends of the list
moveCursor_Wraps(m, delta) ==
    [m EXCEPT !.cursor = (m.cursor + delta) % maxInt(1, Len(m.filtered))]

\* varSelectModel.moveCursor
moveCursor(m, delta) ==
    [m EXCEPT !.cursor = clamp(m.cursor + delta, 0, maxInt(0, Len(m.filtered) - 1))]

\* varSelectModel.handleKeyPress: the model after the key, and whether the
\* handler returned tea.Quit
SelHandleKeyPress(m, key) ==
    CASE key = "ctrl+c" ->
            [m |-> [m EXCEPT !.cancelled = TRUE, !.selected = EXIT], quit |-> TRUE]
      [] key = "esc" ->
            [m |-> [m EXCEPT !.cancelled = TRUE], quit |-> TRUE]
      [] key = "enter" ->
            [m |-> [m EXCEPT !.selected =
                        IF m.cursor < Len(m.filtered)
                        THEN m.filtered[m.cursor + 1]
                        ELSE m.textInput],
             quit |-> TRUE]
      [] key \in {"up", "ctrl+p"} -> [m |-> moveCursor(m, -1), quit |-> FALSE]
      [] key \in {"down", "ctrl+n"} -> [m |-> moveCursor(m, 1), quit |-> FALSE]
      [] key = "tab" ->
            [m |-> IF m.cursor < Len(m.filtered)
                   THEN [m EXCEPT !.textInput = m.filtered[m.cursor + 1]]
                   ELSE m,
             quit |-> FALSE]
      [] OTHER -> [m |-> m, quit |-> FALSE]

\* ----------------------------------------------------------- varInputModel

InpIdle == [textInput |-> <<>>, value |-> <<>>, cancelled |-> FALSE]

\* newVarInputModel
newVarInputModel(prefill) ==
    [textInput |-> IF prefill # <<>> THEN prefill ELSE <<>>,
     value |-> <<>>, cancelled |-> FALSE]

\* varInputModel.handleKeyPress
InpHandleKeyPress(m, key) ==
    CASE key = "ctrl+c" ->
            [m |-> [m EXCEPT !.cancelled = TRUE, !.value = EXIT], quit |-> TRUE]
      [] key = "esc" ->
            [m |-> [m EXCEPT !.cancelled = TRUE], quit |-> TRUE]
      [] key = "enter" ->
            [m |-> [m EXCEPT !.value = m.textInput], quit |-> TRUE]
      [] OTHER -> [m |-> m, quit |-> FALSE]

\* ------------------------------------------------- SelectWithTUI / Prompt...

\* what the wrappers return: (value, goBack, err)
Outcome(value, goBack, err) == [value |-> value, goBack |-> goBack, err |-> err]

\* SelectWithTUI after p.Run() returned the final model (or failed)
SelectWithTUI(final, failed) ==
    IF failed THEN Outcome(<<>>, FALSE, "tui")
    ELSE IF final.selected = EXIT THEN Outcome(EXIT, FALSE, "nil")
    ELSE IF final.cancelled THEN Outcome(<<>>, TRUE, "nil")
    ELSE Outcome(final.selected, FALSE, "nil")

\* a wrapper that reads the final model although p.Run() failed
PromptWithTUI_DropsError(final, failed) ==
    IF final.value = EXIT THEN Outcome(EXIT, FALSE, "nil")
    ELSE IF final.cancelled THEN Outcome(<<>>, TRUE, "nil")
    ELSE Outcome(final.value, FALSE, "nil")

\* PromptWithTUI after p.Run() returned the final model (or failed)
PromptWithTUI(final, failed) ==
    IF failed THEN Outcome(<<>>, FALSE, "tui")
    ELSE IF final.value = EXIT THEN Outcome(EXIT, FALSE, "nil")
    ELSE IF final.cancelled THEN Outcome(<<>>, TRUE, "nil")
    ELSE Outcome(final.value, FALSE, "nil")

\* ------------------------------------------------------------- resolveVar

\* exec.RunShell not called
NotRun == [runs |-> 0, err |-> FALSE, output |-> <<>>]

\* what one call of exec.RunShell gave: combined output, or an error
Ran(run) == [runs |-> 1, err |-> run.err, output |-> run.output]

\* a resolver that returns the execution error of the value command
resolveVar_PropagatesShellError(v, sc, prefill, run) ==
    IF TrimSpace(v.Shell) # <<>> /\ run.err
    THEN [shell |-> [runs |-> 1, err |-> TRUE, output |-> <<>>], comp |-> "none",
          err |-> "shell", inp |-> InpIdle, sel |-> SelIdle]
    ELSE [shell |-> IF TrimSpace(v.Shell) = <<>>
                    THEN [runs |-> 0, err |-> FALSE, output |-> <<>>]
                    ELSE [runs |-> 1, err |-> FALSE, output |-> run.output],
          comp |-> "prompt", err |-> "nil",
          inp |-> newVarInputModel(prefill), sel |-> SelIdle]

\* a resolver that falls back to the text entry only for an empty output
resolveVar_SingleLineSelects(v, sc, prefill, run) ==
    IF TrimSpace(v.Shell) = <<>> \/ run.err \/ Len(splitLines(run.output)) = 0
    THEN [shell |-> IF TrimSpace(v.Shell) = <<>>
                    THEN [runs |-> 0, err |-> FALSE, output |-> <<>>]
                    ELSE [runs |-> 1, err |-> run.err, output |-> run.output],
          comp |-> "prompt", err |-> "nil",
          inp |-> newVarInputModel(prefill), sel |-> SelIdle]
    ELSE [shell |-> [runs |-> 1, err |-> run.err, output |-> run.output],
          comp |-> "select", err |-> "nil", inp |-> InpIdle,
          sel |-> newVarSelectModel(splitLines(run.output), prefill)]

\* resolveVar up to the construction of the interactive component; run is
\* what exec.RunShell returns when it is called. err is the error resolveVar
\* returns without running a component: the code has no such return
resolveVar(v, sc, prefill, run) ==
    IF TrimSpace(v.Shell) = <<>>
    THEN [shell |-> NotRun, comp |-> "prompt", err |-> "nil",
          inp |-> newVarInputModel(prefill), sel |-> SelIdle]
    ELSE IF run.err
    THEN [shell |-> Ran(run), comp |-> "prompt", err |-> "nil",
          inp |-> newVarInputModel(prefill), sel |-> SelIdle]
    ELSE LET lines == splitLines(run.output)
         IN  IF Len(lines) \in {0, 1}
             THEN [shell |-> Ran(run), comp |-> "prompt", err |-> "nil",
                   inp |-> newVarInputModel(prefill), sel |-> SelIdle]
             ELSE [shell |-> Ran(run), comp |-> "select", err |-> "nil",
                   inp |-> InpIdle, sel |-> newVarSelectModel(lines, prefill)]

\* ------------------------------------------------------------ the session

\* a Go map as a function on the set of its keys
EmptyMap == [k \in {} |-> <<>>]
MapPut(m, k, v) == [x \in (DOMAIN m) \cup {k} |-> IF x = k THEN v ELSE m[x]]

\* for _, vs := range vars { if vs.resolved { m[vs.def.Name] = vs.value } }
RECURSIVE PutResolved(_, _)
PutResolved(m, vs) ==
    IF vs = <<>> THEN m
    ELSE PutResolved(IF Head(vs).resolved
                     THEN MapPut(m, Head(vs).def.Name, Head(vs).value)
                     ELSE m,
                     Tail(vs))

\* buildScope
buildScope(vs) == PutResolved(EmptyMap, vs)

\* the variable names of a session, distinct as findCommandVars returns them
VarNames == <<<<"a">>, <<"b">>, <<"c">>, <<"d">>>>

\* the value commands of a session's definitions: none, or a command
ShellCmds == {<<>>, <<"l", "s">>}

\* values of the environment variable named like a variable: unset, or set
EnvValues == {<<>>, <<"p">>}

\* os.Getenv for the n variables of a session: nothing set, or the variable
\* named like the first one
Envs(n) == {e \in [1..n -> EnvValues] : \A i \in 2..n : e[i] = <<>>}

\* what exec.RunShell can return in a session: an error, or an output with
\* no line, one line, lines to trim, the sentinel as a line
SessionRuns ==
    {[err |-> TRUE, output |-> <<>>]} \cup
    {[err |-> FALSE, output |-> o] :
        o \in {<<>>,
               <<" ", "a", " ", "\n">>,
               <<"a", "\n", " ", "b", "\n", "\n">>,
               EXIT \o <<"\n", "a", "\n">>}}

\* the text a key press (or a paste) can leave in the text input
InputTexts == {<<>>, <<"a">>, <<"x">>, EXIT}

\* the result of collectVariables: pending states, empty value and prefill
NewVarState(name, shell) ==
    [def |-> [Name |-> name, Shell |-> shell],
     value |-> <<>>, resolved |-> FALSE, prefill |-> <<>>]

NoRet == [goBack |-> FALSE, err |-> "nil", exitCode |-> -1]

\* the return at line 55 without the go back signal
BackToMain_ReturnsFalse == NoRet

\* line 55: return true, nil
BackToMain == [NoRet EXCEPT !.goBack = TRUE]

\* the collector's variables while another specification runs
CollIdle ==
    /\ cheat = [Command |-> <<>>, Imports |-> <<>>, Vars |-> <<>>]
    /\ index = EmptyMap
    /\ varDefs = EmptyMap
    /\ seen = {}
    /\ stack = <<>>
    /\ collected = <<>>

\* the session's variables while a function-level specification runs
SessionIdle ==
    /\ vars = <<>>
    /\ currentIdx = 0
    /\ ret = NoRet
    /\ cheatScope = EmptyMap
    /\ shellRes = NotRun
    /\ comp = "none"
    /\ inpM = InpIdle
    /\ selM = SelIdle
    /\ scope = EmptyMap
    /\ lastKey = "none"
    /\ runErr = FALSE
    /\ allEnter = TRUE
    /\ entered = <<>>

Init ==
    /\ pc = "start"
    /\ \E n \in 0..MaxVars : \E shells \in [1..n -> ShellCmds] :
           vars = [i \in 1..n |-> NewVarState(VarNames[i], shells[i])]
    /\ currentIdx = 0
    /\ ret = NoRet
    /\ cheatScope = EmptyMap
    /\ shellRes = NotRun
    /\ comp = "none"
    /\ inpM = InpIdle
    /\ selM = SelIdle
    /\ scope = EmptyMap
    /\ lastKey = "none"
    /\ runErr = FALSE
    /\ allEnter = TRUE
    /\ entered = <<>>
    /\ fnArg = <<>>
    /\ fnRes = <<>>
    /\ CollIdle

\* resolveAllVariables, lines 39-52: the empty list returns at once, else
\* the prefill is read from the environment
Begin ==
    /\ pc = "start"
    /\ IF Len(vars) = 0
       THEN /\ pc' = "returned"
            /\ ret' = [NoRet EXCEPT !.goBack = FALSE]
            /\ UNCHANGED vars
       ELSE /\ \E env \in Envs(Len(vars)) :
                   vars' = [i \in 1..Len(vars) |->
                               IF env[i] # <<>>
                               THEN [vars[i] EXCEPT !.prefill = env[i]]
                               ELSE vars[i]]
            /\ pc' = "loop"
            /\ UNCHANGED ret
    /\ currentIdx' = 0
    /\ UNCHANGED <<cheatScope, shellRes, comp, inpM, selM, scope, lastKey, runErr,
                   allEnter, entered>>
    /\ UNCHANGED <<fnVars, collVars>>

\* a loop that ends one variable early
LoopDone_OneEarly(idx, n) == ~(idx < n - 1)

\* line 53: the loop condition currentIdx < len(vars) fails
LoopDone(idx, n) == ~(idx < n)

\* the head of the loop, lines 53-67, up to the component waiting for a key;
\* after the loop, lines 90-97
SessionLoop ==
    /\ pc = "loop"
    /\ IF LoopDone(currentIdx, Len(vars))
       THEN /\ cheatScope' = PutResolved(cheatScope, vars)
            /\ ret' = [NoRet EXCEPT !.goBack = FALSE]
            /\ pc' = "returned"
            /\ UNCHANGED <<vars, currentIdx, shellRes, comp, inpM, selM, scope>>
       ELSE IF currentIdx < 0
       THEN /\ ret' = BackToMain
            /\ pc' = "returned"
            /\ UNCHANGED <<vars, currentIdx, cheatScope, shellRes, comp, inpM,
                           selM, scope>>
       ELSE IF vars[currentIdx + 1].resolved
       THEN /\ currentIdx' = currentIdx + 1
            /\ UNCHANGED <<pc, vars, ret, cheatScope, shellRes, comp, inpM,
                           selM, scope>>
       ELSE \E run \in SessionRuns :
              LET vs == vars[currentIdx + 1]
                  r  == resolveVar(vs.def, buildScope(vars), vs.prefill, run)
              IN  /\ scope' = buildScope(vars)
                  /\ shellRes' = r.shell
                  /\ IF r.err # "nil"
                     THEN /\ ret' = [NoRet EXCEPT !.err = r.err]
                          /\ pc' = "returned"
                          /\ UNCHANGED <<comp, inpM, selM>>
                     ELSE /\ comp' = r.comp
                          /\ inpM' = r.inp
                          /\ selM' = r.sel
                          /\ pc' = "tui"
                          /\ UNCHANGED ret
                  /\ UNCHANGED <<vars, currentIdx, cheatScope>>
    /\ UNCHANGED <<lastKey, runErr, allEnter, entered>>
    /\ UNCHANGED <<fnVars, collVars>>

\* bubbles' textinput.Update: a typing key leaves the typed text in the
\* field, the keys the models handle themselves leave it as it is
TextInputUpdate(text, key, typed) == IF key = "type" THEN typed ELSE text

SelKeys == {"ctrl+c", "esc", "enter", "up", "down", "tab", "type"}
InpKeys == {"ctrl+c", "esc", "enter", "type"}

\* varSelectModel.Update for a key message
SelUpdate(m, key, typed) ==
    LET h == SelHandleKeyPress(m, key)
    IN  IF h.quit THEN h
        ELSE [m |-> filterOptions(
                      [h.m EXCEPT !.textInput =
                                     TextInputUpdate(h.m.textInput, key, typed)]),
              quit |-> FALSE]

\* varInputModel.Update for a key message
InpUpdate(m, key, typed) ==
    LET h == InpHandleKeyPress(m, key)
    IN  IF h.quit THEN h
        ELSE [m |-> [h.m EXCEPT !.textInput =
                                   TextInputUpdate(h.m.textInput, key, typed)],
              quit |-> FALSE]

\* a key message reaches the running selector
SelectKey ==
    /\ pc = "tui"
    /\ comp = "select"
    /\ \E key \in SelKeys : \E typed \in InputTexts :
          LET u == SelUpdate(selM, key, typed)
          IN  /\ selM' = u.m
              /\ pc' = IF u.quit THEN "quit" ELSE "tui"
              /\ lastKey' = IF u.quit THEN key ELSE lastKey
    /\ UNCHANGED <<vars, currentIdx, ret, cheatScope, shellRes, comp, inpM,
                   scope, runErr, allEnter, entered>>
    /\ UNCHANGED <<fnVars, collVars>>

\* another message (window size, cursor blink) reaches the running
\* selector: Update passes it to the text input and filters again
SelectOtherMsg ==
    /\ pc = "tui"
    /\ comp = "select"
    /\ selM' = filterOptions(selM)
    /\ UNCHANGED <<pc, vars, currentIdx, ret, cheatScope, shellRes, comp, inpM,
                   scope, lastKey, runErr, allEnter, entered>>
    /\ UNCHANGED <<fnVars, collVars>>

\* a key message reaches the running text entry
InputKey ==
    /\ pc = "tui"
    /\ comp = "prompt"
    /\ \E key \in InpKeys : \E typed \in InputTexts :
          LET u == InpUpdate(inpM, key, typed)
          IN  /\ inpM' = u.m
              /\ pc' = IF u.quit THEN "quit" ELSE "tui"
              /\ lastKey' = IF u.quit THEN key ELSE lastKey
    /\ UNCHANGED <<vars, currentIdx, ret, cheatScope, shellRes, comp, selM,
                   scope, runErr, allEnter, entered>>
    /\ UNCHANGED <<fnVars, collVars>>

\* p.Run() of the component returns an error (terminal or render failure)
ProgramFails ==
    /\ pc = "tui"
    /\ pc' = "quit"
    /\ runErr' = TRUE
    /\ lastKey' = "error"
    /\ UNCHANGED <<vars, currentIdx, ret, cheatScope, shellRes, comp, inpM,
                   selM, scope, allEnter, entered>>
    /\ UNCHANGED <<fnVars, collVars>>

\* what resolveVar returns once the component has ended
ComponentOutcome ==
    IF comp = "select" THEN SelectWithTUI(selM, runErr)
    ELSE PromptWithTUI(inpM, runErr)

\* the text the component's enter handler took as the submission
SubmittedText == IF comp = "select" THEN selM.selected ELSE inpM.value

\* a session that does not check for the sentinel
IsExitValue_Never(value) == FALSE

\* line 72: the value that makes the session exit the process
IsExitValue(value) == value = EXIT

\* a go back that invalidates every variable instead of the predecessor
OnGoBack_ResetsAll(vs, idx) ==
    [i \in 1..Len(vs) |-> [vs[i] EXCEPT !.resolved = FALSE, !.value = <<>>]]

\* a go back that moves the cursor and invalidates nothing
OnGoBack_KeepsResolved(vs, idx) == vs

\* lines 76-83: the variable states after a go back from idx
OnGoBack(vs, idx) ==
    IF idx - 1 >= 0
    THEN [vs EXCEPT ![idx].resolved = FALSE, ![idx].value = <<>>]
    ELSE vs

\* lines 85-87: the variable states after a value for idx
OnValue(vs, idx, value) ==
    [vs EXCEPT ![idx + 1].value = value, ![idx + 1].resolved = TRUE]

\* the component has ended: resolveVar returns, lines 68-88
SessionResume ==
    /\ pc = "quit"
    /\ LET out == ComponentOutcome
       IN  IF out.err # "nil"
           THEN /\ ret' = [NoRet EXCEPT !.err = out.err]
                /\ pc' = "returned"
                /\ UNCHANGED <<vars, currentIdx>>
           ELSE IF IsExitValue(out.value)
           THEN /\ ret' = [NoRet EXCEPT !.exitCode = 0]
                /\ pc' = "exited"
                /\ UNCHANGED <<vars, currentIdx>>
           ELSE IF out.goBack
           THEN /\ currentIdx' = currentIdx - 1
                /\ vars' = OnGoBack(vars, currentIdx)
                /\ pc' = "loop"
                /\ UNCHANGED ret
           ELSE /\ vars' = OnValue(vars, currentIdx, out.value)
                /\ currentIdx' = currentIdx + 1
                /\ pc' = "loop"
                /\ UNCHANGED ret
    /\ comp' = "none"
    /\ inpM' = InpIdle
    /\ selM' = SelIdle
    /\ shellRes' = NotRun
    /\ runErr' = FALSE
    /\ allEnter' = (allEnter /\ lastKey = "enter" /\ ~runErr)
    /\ entered' = IF allEnter /\ lastKey = "enter" /\ ~runErr
                  THEN Append(entered, SubmittedText)
                  ELSE <<>>
    /\ UNCHANGED <<cheatScope, scope, lastKey>>
    /\ UNCHANGED <<fnVars, collVars>>

Next ==
    \/ Begin
    \/ SessionLoop
    \/ SelectKey
    \/ SelectOtherMsg
    \/ InputKey
    \/ ProgramFails
    \/ SessionResume

Spec == Init /\ [][Next]_allVars

\* ------------------------------------------------- claims on the session

\* a resolveVar call ended by this key is about to return to the session
EndedBy(key) == pc = "quit" /\ ~runErr /\ lastKey = key

\* the names of the session's variables
SessionNames == {vars[i].def.Name : i \in 1..Len(vars)}

\* C1: in a session over N >= 1 variables in which every step ended with a
\* submission (Enter), whatever the submitted texts, the session does not
\* exit or fail, and when it returns it returns success with a merged scope
\* of exactly N entries: each variable, in order, with the text submitted at
\* its step.
C1_SubmittedValuesReachScope ==
    (allEnter /\ Len(vars) >= 1) =>
        /\ pc # "exited"
        /\ ret.err = "nil"
        /\ pc = "returned" =>
              /\ ret = NoRet
              /\ Len(entered) = Len(vars)
              /\ DOMAIN cheatScope = SessionNames
              /\ \A i \in 1..Len(vars) :
                    cheatScope[vars[i].def.Name] = entered[i]

\* C2: a go back (escape) at cursor c > 0 sets the cursor to c-1, makes
\* variable c-1 Pending with an empty value, and leaves every other
\* variable's state, and every definition and prefill, as they were.
C2_BackInvalidatesOnlyPredecessor ==
    [][(EndedBy("esc") /\ currentIdx > 0) =>
          /\ currentIdx' = currentIdx - 1
          /\ pc' = "loop"
          /\ Len(vars') = Len(vars)
          /\ ~vars'[currentIdx].resolved
          /\ vars'[currentIdx].value = <<>>
          /\ \A i \in 1..Len(vars) :
                /\ i # currentIdx => vars'[i] = vars[i]
                /\ vars'[i].def = vars[i].def
                /\ vars'[i].prefill = vars[i].prefill]_allVars

\* the go back from the third variable has been handled: the first variable
\* keeps its value, the second one is Pending again
C2_Witness ==
    /\ pc = "loop"
    /\ lastKey = "esc"
    /\ Len(vars) = 3
    /\ currentIdx = 1
    /\ vars[1].resolved /\ vars[1].value = <<"a">>
    /\ ~vars[2].resolved /\ vars[2].value = <<>>

\* C3: a go back (escape) at cursor 0 changes no variable state and merges
\* nothing, and the session then returns goBack = true without an error.
C3_BackAtFirstReturnsToCaller ==
    [][/\ (EndedBy("esc") /\ currentIdx = 0) =>
              /\ currentIdx' = -1
              /\ pc' = "loop"
              /\ vars' = vars
              /\ cheatScope' = cheatScope
       /\ (pc = "loop" /\ currentIdx = -1) =>
              /\ pc' = "returned"
              /\ ret' = [goBack |-> TRUE, err |-> "nil", exitCode |-> -1]
              /\ vars' = vars
              /\ cheatScope' = cheatScope]_allVars

\* the session has returned to the caller after escape at the first variable
C3_Witness ==
    /\ pc = "returned"
    /\ currentIdx = -1
    /\ lastKey = "esc"
    /\ ret.goBack
    /\ cheatScope = EmptyMap

\* C4: an interrupt (ctrl+c) at any step exits the process with status 0:
\* nothing is merged, no variable state changes, and nothing happens after
\* the exit (no step is presented, the session never returns to the caller
\* that would run the output dispatcher).
C4_InterruptExits ==
    [][/\ EndedBy("ctrl+c") =>
              /\ pc' = "exited"
              /\ ret' = [goBack |-> FALSE, err |-> "nil", exitCode |-> 0]
              /\ vars' = vars
              /\ currentIdx' = currentIdx
              /\ cheatScope' = cheatScope
       /\ pc = "exited" => UNCHANGED allVars]_allVars

\* the interrupt came at a later step, with a variable already resolved
C4_Witness ==
    /\ pc = "exited"
    /\ lastKey = "ctrl+c"
    /\ currentIdx = 1
    /\ vars[1].resolved
    /\ cheatScope = EmptyMap

\* C5: the session exits only after the interrupt key and goes back only
\* after escape; every text submitted with Enter, in the text entry or the
\* selector, is the step's value: the step becomes Resolved with that text
\* and the cursor advances.
C5_OutcomeNeverConflated ==
    [][(pc = "quit" /\ ~runErr) =>
          /\ lastKey = "enter" =>
                /\ pc' = "loop"
                /\ currentIdx' = currentIdx + 1
                /\ vars'[currentIdx + 1].resolved
                /\ vars'[currentIdx + 1].value = SubmittedText
          /\ pc' = "exited" => lastKey = "ctrl+c"
          /\ currentIdx' = currentIdx - 1 => lastKey = "esc"]_allVars

\* C7: when the value command's execution fails, the resolver runs it once,
\* presents the text entry (with the variable's prefill), and the session
\* stays at the same variable with every variable state unchanged; the only
\* error resolveAllVariables ever returns is a component's.
C7_ShellFailureFallsBack ==
    [][/\ (pc = "loop" /\ shellRes'.err) =>
              /\ pc' = "tui"
              /\ comp' = "prompt"
              /\ inpM' = newVarInputModel(vars[currentIdx + 1].prefill)
              /\ selM' = SelIdle
              /\ shellRes'.runs = 1
              /\ currentIdx' = currentIdx
              /\ vars' = vars
              /\ ret' = ret
              /\ cheatScope' = cheatScope
       /\ ret'.err \in {"nil", "tui"}]_allVars

\* the command of the second variable failed and the text entry is shown
C7_Witness ==
    /\ pc = "tui"
    /\ shellRes.err
    /\ shellRes.runs = 1
    /\ comp = "prompt"
    /\ currentIdx = 1

\* C8: when the component fails, resolveAllVariables returns that error with
\* goBack = false: no variable state changes, nothing is merged, and no step
\* follows.
C8_ComponentFailureIsFatal ==
    [][/\ (pc = "quit" /\ runErr) =>
              /\ pc' = "returned"
              /\ ret' = [goBack |-> FALSE, err |-> "tui", exitCode |-> -1]
              /\ vars' = vars
              /\ currentIdx' = currentIdx
              /\ cheatScope' = cheatScope
       /\ pc = "returned" => UNCHANGED allVars]_allVars

\* the component failed at the second step, after a value was resolved
C8_Witness ==
    /\ pc = "returned"
    /\ ret.err = "tui"
    /\ ~ret.goBack
    /\ lastKey = "error"
    /\ currentIdx = 1
    /\ vars[1].resolved
    /\ cheatScope = EmptyMap

\* ------------------------------------------- resolveVar as a function

\* every string over the characters A of length at most n
StringsUpTo(A, n) == UNION {[1..k -> A] : k \in 0..n}

\* the output the spec gives as an example: "a\nb\nc\n"
ExampleOutput == <<"a", "\n", "b", "\n", "c", "\n">>

\* value commands: none, blank ones, commands
ResolveShells == {<<>>, <<" ">>, <<" ", "\t">>, <<"l", "s">>, <<" ", "l", "s", " ">>}

\* what exec.RunShell can return: an error, or any short output
ResolveRuns ==
    {[err |-> TRUE, output |-> <<>>]} \cup
    {[err |-> FALSE, output |-> o] :
        o \in StringsUpTo({"a", "b", " ", "\n"}, MaxOutLen)
              \cup {ExampleOutput, EXIT \o <<"\n", "a", "\n">>}}

InitResolve ==
    /\ pc = "call"
    /\ fnArg \in [v : [Name : {<<"a">>}, Shell : ResolveShells],
                  prefill : EnvValues,
                  run : ResolveRuns]
    /\ fnRes = <<>>
    /\ SessionIdle
    /\ CollIdle

\* one call of resolveVar, up to the component it invokes
ResolveCall ==
    /\ pc = "call"
    /\ pc' = "done"
    /\ fnRes' = resolveVar(fnArg.v, EmptyMap, fnArg.prefill, fnArg.run)
    /\ UNCHANGED <<fnArg, nonFnVars>>

NextResolve == ResolveCall

SpecResolve == InitResolve /\ [][NextResolve]_allVars

\* the claim's reading of an output: a line runs between two line breaks (or
\* the ends of the text), and counts when it holds a non-space character
LineBreaks(s) == {0, Len(s) + 1} \cup {i \in 1..Len(s) : s[i] = "\n"}
NextBreak(s, p) ==
    CHOOSE q \in LineBreaks(s) : q > p /\ \A r \in LineBreaks(s) : r > p => q <= r
Inked(s, p) == {i \in (p + 1)..(NextBreak(s, p) - 1) : s[i] \notin {" ", "\t", "\r"}}
InkedLines(s) == {p \in LineBreaks(s) \ {Len(s) + 1} : Inked(s, p) # {}}
SetMin(S) == CHOOSE x \in S : \A y \in S : x <= y
SetMax(S) == CHOOSE x \in S : \A y \in S : x >= y
LineAt(s, p) == SubSeq(s, SetMin(Inked(s, p)), SetMax(Inked(s, p)))
IsLinesOf(ls, s) ==
    /\ Len(ls) = Cardinality(InkedLines(s))
    /\ \A p \in InkedLines(s) :
          ls[Cardinality({q \in InkedLines(s) : q <= p})] = LineAt(s, p)
IsBlank(s) == \A i \in 1..Len(s) : s[i] \in {" ", "\t", "\r", "\n"}

\* C6: the resolver's strategy follows from the definition and the value
\* command's run: a blank value command gives the text entry and runs no
\* command; a command that ran and printed zero or one non-empty trimmed
\* line gives the text entry; one that printed two or more gives the
\* selector with exactly those lines, trimmed, in output order ("a\nb\nc\n"
\* gives a, b, c). Exactly one component is constructed per call.
C6_ResolverStrategy ==
    pc = "done" =>
        LET shell == fnArg.v.Shell
            run   == fnArg.run
            n     == Cardinality(InkedLines(run.output))
        IN  /\ IsBlank(shell) =>
                  fnRes.comp = "prompt" /\ fnRes.shell.runs = 0
            /\ (~IsBlank(shell) /\ ~run.err /\ n <= 1) =>
                  fnRes.comp = "prompt" /\ fnRes.shell.runs = 1
            /\ (~IsBlank(shell) /\ ~run.err /\ n >= 2) =>
                  /\ fnRes.comp = "select"
                  /\ fnRes.shell.runs = 1
                  /\ IsLinesOf(fnRes.sel.options, run.output)
            /\ (~IsBlank(shell) /\ run = [err |-> FALSE, output |-> ExampleOutput]) =>
                  fnRes.sel.options = <<<<"a">>, <<"b">>, <<"c">>>>
            /\ \/ /\ fnRes.comp = "prompt"
                  /\ fnRes.inp = newVarInputModel(fnArg.prefill)
                  /\ fnRes.sel = SelIdle
               \/ /\ fnRes.comp = "select"
                  /\ fnRes.inp = InpIdle
                  /\ fnRes.sel = newVarSelectModel(fnRes.sel.options, fnArg.prefill)
            /\ fnRes.err = "nil"

\* the example "a\nb\nc\n" reached the selector as the candidates a, b, c
C6_Witness ==
    /\ pc = "done"
    /\ fnArg.v.Shell = <<"l", "s">>
    /\ fnArg.run = [err |-> FALSE, output |-> ExampleOutput]
    /\ fnRes.comp = "select"
    /\ fnRes.sel.options = <<<<"a">>, <<"b">>, <<"c">>>>

\* -------------------------------------------------------- findCommandVars

Letters == {LowerCase[i] : i \in 1..Len(LowerCase)} \cup
           {UpperCase[i] : i \in 1..Len(UpperCase)}
Digits == {"0", "1", "2", "3", "4", "5", "6", "7", "8", "9"}

\* a scanner that takes a digit for the first character of a name
isVarChar_DigitFirst(c, first) == c \in Letters \cup {"_"} \cup Digits

\* isVarChar
isVarChar(c, first) ==
    IF c \in Letters \/ c = "_" THEN TRUE
    ELSE ~first /\ c \in Digits

\* the known scope of findCommandVars: nil, or a map
NilScope == [nil |-> TRUE, m |-> EmptyMap]
MapScope(m) == [nil |-> FALSE, m |-> m]

\* scope[varName]: the empty string for a missing key
MapGet(m, k) == IF k \in DOMAIN m THEN m[k] ELSE <<>>

\* the inner loop, lines 320-323: the first j (0-based) at or after j that
\* holds no character of the name
RECURSIVE ScanName(_, _, _)
ScanName(cmd, i, j) ==
    IF j < Len(cmd) /\ isVarChar(cmd[j + 1], j = i + 1)
    THEN ScanName(cmd, i, j + 1)
    ELSE j

\* the outer loop, lines 312-333, from index i (0-based)
RECURSIVE ScanFrom(_, _, _, _, _)
ScanFrom(cmd, sc, i, found, seenVars) ==
    IF ~(i < Len(cmd)) THEN found
    ELSE IF cmd[i + 1] # "$" \/ i + 1 >= Len(cmd)
    THEN ScanFrom(cmd, sc, i + 1, found, seenVars)
    ELSE IF i > 0 /\ cmd[i] = "\\"
    THEN ScanFrom(cmd, sc, i + 1, found, seenVars)
    ELSE LET j == ScanName(cmd, i, i + 1)
         IN  IF j > i + 1
             THEN LET varName == SubSeq(cmd, i + 2, j)
                  IN  IF varName \notin seenVars /\ (sc.nil \/ MapGet(sc.m, varName) = <<>>)
                      THEN ScanFrom(cmd, sc, j, Append(found, varName),
                                    seenVars \cup {varName})
                      ELSE ScanFrom(cmd, sc, j, found, seenVars)
             ELSE ScanFrom(cmd, sc, j, found, seenVars)

\* findCommandVars
findCommandVars(cmd, sc) == ScanFrom(cmd, sc, 0, <<>>, {})

\* "deploy $env to $env-$region"
ExampleCmd ==
    <<"d", "e", "p", "l", "o", "y", " ", "$", "e", "n", "v", " ", "t", "o", " ",
      "$", "e", "n", "v", "-", "$", "r", "e", "g", "i", "o", "n">>

\* the characters of the scanned templates
CmdChars == {"$", "\\", "a", "_", "1", "-"}

ScanCmds == StringsUpTo(CmdChars, MaxCmdLen) \cup {ExampleCmd}

\* known scopes: none, a value for $a, an empty value for $a, a value for $_
ScanScopes ==
    {NilScope,
     MapScope(MapPut(EmptyMap, <<"a">>, <<"v">>)),
     MapScope(MapPut(EmptyMap, <<"a">>, <<>>)),
     MapScope(MapPut(EmptyMap, <<"_">>, <<"v">>))}

InitScan ==
    /\ pc = "call"
    /\ fnArg \in [cmd : ScanCmds, scope : ScanScopes]
    /\ fnRes = <<>>
    /\ SessionIdle
    /\ CollIdle

\* one call of findCommandVars
ScanCall ==
    /\ pc = "call"
    /\ pc' = "done"
    /\ fnRes' = findCommandVars(fnArg.cmd, fnArg.scope)
    /\ UNCHANGED <<fnArg, nonFnVars>>

NextScan == ScanCall

SpecScan == InitScan /\ [][NextScan]_allVars

\* the claim's reading of a template: a reference starts at a "$" that no
\* backslash precedes and that an identifier start follows; its name is the
\* longest run of identifier characters after the "$"
IsNameStart(c) == c \in Letters \cup {"_"}
IsNameChar(c) == c \in Letters \cup Digits \cup {"_"}
RefStarts(cmd) ==
    {i \in 1..(Len(cmd) - 1) :
        /\ cmd[i] = "$"
        /\ (i = 1 \/ cmd[i - 1] # "\\")
        /\ IsNameStart(cmd[i + 1])}
RefEnd(cmd, i) ==
    SetMax({k \in (i + 1)..Len(cmd) : \A x \in (i + 1)..k : IsNameChar(cmd[x])})
RefName(cmd, i) == SubSeq(cmd, i + 1, RefEnd(cmd, i))
FirstRef(cmd, name) == SetMin({i \in RefStarts(cmd) : RefName(cmd, i) = name})
WantedNames(cmd, sc) ==
    {n \in {RefName(cmd, i) : i \in RefStarts(cmd)} : MapGet(sc.m, n) = <<>>}

\* C9: findCommandVars returns each referenced name that has no non-empty
\* value in the known scope exactly once, in the order of the names' first
\* references; "deploy $env to $env-$region" with no known scope gives
\* env, region.
C9_ScannerFindsReferences ==
    pc = "done" =>
        /\ {fnRes[k] : k \in 1..Len(fnRes)} = WantedNames(fnArg.cmd, fnArg.scope)
        /\ \A k, l \in 1..Len(fnRes) :
              k < l => FirstRef(fnArg.cmd, fnRes[k]) < FirstRef(fnArg.cmd, fnRes[l])
        /\ (fnArg.cmd = ExampleCmd /\ fnArg.scope = NilScope) =>
              fnRes = <<<<"e", "n", "v">>, <<"r", "e", "g", "i", "o", "n">>>>

\* the example was scanned: env once, then region
C9_Witness ==
    /\ pc = "done"
    /\ fnArg.cmd = ExampleCmd
    /\ fnArg.scope = NilScope
    /\ fnRes = <<<<"e", "n", "v">>, <<"r", "e", "g", "i", "o", "n">>>>

\* ------------------------------------------------------- collectVariables

\* a definition that replaces the one an earlier import gave
AddModuleVars_Overwrites(defs, mvars) ==
    [n \in (DOMAIN defs) \cup {mvars[k].Name : k \in 1..Len(mvars)} |->
        IF \E k \in 1..Len(mvars) : mvars[k].Name = n
        THEN mvars[CHOOSE k \in 1..Len(mvars) : mvars[k].Name = n]
        ELSE defs[n]]

\* lines 120-124: a module's definitions, each added unless the name exists
RECURSIVE AddModuleVars(_, _)
AddModuleVars(defs, mvars) ==
    IF mvars = <<>> THEN defs
    ELSE AddModuleVars(IF Head(mvars).Name \notin DOMAIN defs
                       THEN MapPut(defs, Head(mvars).Name, Head(mvars))
                       ELSE defs,
                       Tail(mvars))

\* lines 131-133: the local definitions, each put over what is there
RECURSIVE PutLocalVars(_, _)
PutLocalVars(defs, lvars) ==
    IF lvars = <<>> THEN defs
    ELSE PutLocalVars(MapPut(defs, Head(lvars).Name, Head(lvars)), Tail(lvars))

\* an ordered list that leaves out the names no definition was found for
RECURSIVE BuildOrdered_SkipsUndefined(_, _)
BuildOrdered_SkipsUndefined(usedVars, defs) ==
    IF usedVars = <<>> THEN <<>>
    ELSE (IF Head(usedVars) \in DOMAIN defs
          THEN <<NewVarState(Head(usedVars), defs[Head(usedVars)].Shell)>>
          ELSE <<>>)
         \o BuildOrdered_SkipsUndefined(Tail(usedVars), defs)

\* lines 136-145: one pending state per used name, with its definition or
\* a definition of the name alone
RECURSIVE BuildOrdered(_, _)
BuildOrdered(usedVars, defs) ==
    IF usedVars = <<>> THEN <<>>
    ELSE <<IF Head(usedVars) \in DOMAIN defs
           THEN NewVarState(Head(usedVars), defs[Head(usedVars)].Shell)
           ELSE NewVarState(Head(usedVars), <<>>)>>
         \o BuildOrdered(Tail(usedVars), defs)

VarDef(name, shell) == [Name |-> name, Shell |-> shell]

\* the modules of the index, and an import name the index does not hold
ModuleNames == {"m1", "m2"}
MissingModule == "zz"

\* what the modules define: m1 defines $a and $b, m2 defines $a
ModuleVarsOf(mod) ==
    IF mod = "m1"
    THEN <<VarDef(<<"a">>, <<"1">>), VarDef(<<"b">>, <<"1">>)>>
    ELSE <<VarDef(<<"a">>, <<"2">>)>>

\* the local definitions of a command
LocalA == VarDef(<<"a">>, <<"l">>)
LocalB == VarDef(<<"b">>, <<"l">>)
LocalVarLists == {<<>>, <<LocalA>>, <<LocalB>>, <<LocalA, LocalB>>}

\* import lists without a repeated name being excluded
ImportLists(names) == UNION {[1..k -> names] : k \in 0..MaxImports}

\* commands: "$b $a $c" ($c is defined nowhere), "$a", "ls"
CollectCmds ==
    {<<"$", "b", " ", "$", "a", " ", "$", "c">>, <<"$", "a">>, <<"l", "s">>}

\* lines 102-108 and the call at line 128
InitCollect ==
    /\ pc = "imports"
    /\ cheat \in [Command : CollectCmds,
                  Imports : ImportLists(ModuleNames \cup {MissingModule}),
                  Vars : LocalVarLists]
    /\ \E imps \in [ModuleNames -> ImportLists(ModuleNames)] :
          index = [mod \in ModuleNames |->
                      [Imports |-> imps[mod], Vars |-> ModuleVarsOf(mod)]]
    /\ varDefs = EmptyMap
    /\ seen = {}
    /\ stack = <<[imports |-> cheat.Imports, i |-> 1]>>
    /\ collected = <<>>
    /\ fnArg = <<>>
    /\ fnRes = <<>>
    /\ SessionIdle

nonCollVars == <<vars, currentIdx, ret, cheatScope, shellRes, comp, inpM, selM,
                 scope, lastKey, runErr, allEnter, entered, fnVars>>

\* the running call of collectFromImports, and its position in the loop
TopFrame == stack[Len(stack)]
\* a range loop that stays at the same element
Advance_Stays(frame) == frame
Advance(frame) == [frame EXCEPT !.i = @ + 1]
ReplaceTop(st, frame) == [st EXCEPT ![Len(st)] = frame]

\* lines 113-119: one import name of the running call is looked at; a new
\* name of the index starts the call for that module's imports
VisitImport ==
    /\ pc = "imports"
    /\ stack # <<>>
    /\ TopFrame.i <= Len(TopFrame.imports)
    /\ LET importName == TopFrame.imports[TopFrame.i]
       IN  IF importName \in seen
           THEN /\ stack' = ReplaceTop(stack, Advance(TopFrame))
                /\ UNCHANGED seen
           ELSE /\ seen' = seen \cup {importName}
                /\ stack' = IF importName \in DOMAIN index
                            THEN Append(stack, [imports |-> index[importName].Imports,
                                                i |-> 1])
                            ELSE ReplaceTop(stack, Advance(TopFrame))
    /\ UNCHANGED <<pc, cheat, index, varDefs, collected, nonCollVars>>

\* the loop of the running call is over: it returns, and its caller adds the
\* definitions of the module it was visiting (lines 120-124)
ReturnImports ==
    /\ pc = "imports"
    /\ stack # <<>>
    /\ TopFrame.i > Len(TopFrame.imports)
    /\ IF Len(stack) = 1
       THEN /\ stack' = <<>>
            /\ pc' = "local"
            /\ UNCHANGED varDefs
       ELSE LET caller == stack[Len(stack) - 1]
                module == index[caller.imports[caller.i]]
            IN  /\ varDefs' = AddModuleVars(varDefs, module.Vars)
                /\ stack' = ReplaceTop(SubSeq(stack, 1, Len(stack) - 1),
                                       Advance(caller))
                /\ UNCHANGED pc
    /\ UNCHANGED <<cheat, index, seen, collected, nonCollVars>>

\* lines 130-147: the local definitions override, the ordered list is built
LocalAndBuild ==
    /\ pc = "local"
    /\ pc' = "collected"
    /\ varDefs' = PutLocalVars(varDefs, cheat.Vars)
    /\ collected' = BuildOrdered(findCommandVars(cheat.Command, NilScope),
                                 PutLocalVars(varDefs, cheat.Vars))
    /\ UNCHANGED <<cheat, index, seen, stack, nonCollVars>>

NextCollect ==
    \/ VisitImport
    \/ ReturnImports
    \/ LocalAndBuild

SpecCollect == InitCollect /\ [][NextCollect]_allVars

\* the names the command defines itself
LocalNames == {cheat.Vars[k].Name : k \in 1..Len(cheat.Vars)}

\* C10: while the imports are visited a definition, once taken for a name,
\* is never replaced by an import visited later; the local definitions then
\* replace whatever the imports gave for their names, and only for those.
C10_LocalOverImportsFirstSeenWins ==
    [][/\ pc = "imports" =>
              \A n \in DOMAIN varDefs :
                  n \in DOMAIN varDefs' /\ varDefs'[n] = varDefs[n]
       /\ pc' = "collected" =>
              /\ \A n \in LocalNames :
                    /\ n \in DOMAIN varDefs'
                    /\ \E k \in 1..Len(cheat.Vars) : varDefs'[n] = cheat.Vars[k]
              /\ \A n \in (DOMAIN varDefs) \ LocalNames :
                    n \in DOMAIN varDefs' /\ varDefs'[n] = varDefs[n]
              /\ \A k \in 1..Len(collected') :
                    LET n == collected'[k].def.Name
                    IN  /\ n \in LocalNames => collected'[k].def.Shell = <<"l">>
                        /\ (n \in (DOMAIN varDefs) \ LocalNames) =>
                              collected'[k].def = varDefs[n]]_allVars

\* m1 is imported before m2 and both define $a: $a is m1's; m1 defines $b
\* and so does the command: $b is the command's
C10_Witness ==
    /\ pc = "collected"
    /\ cheat.Imports = <<"m1", "m2">>
    /\ cheat.Vars = <<LocalB>>
    /\ index["m1"].Imports = <<>>
    /\ seen = {"m1", "m2"}
    /\ varDefs[<<"a">>] = VarDef(<<"a">>, <<"1">>)
    /\ varDefs[<<"b">>] = LocalB
    /\ Len(collected) = 3
    /\ collected[1].def = LocalB
    /\ collected[2].def = VarDef(<<"a">>, <<"1">>)

\* the import names the traversal can reach from a set of names: the names
\* themselves, and the imports of those the index holds
ImportNamesOf(name) ==
    IF name \in DOMAIN index
    THEN {index[name].Imports[k] : k \in 1..Len(index[name].Imports)}
    ELSE {}
RECURSIVE ReachFrom(_, _)
ReachFrom(names, done) ==
    IF names \subseteq done THEN done
    ELSE ReachFrom(UNION {ImportNamesOf(n) : n \in names \ done}, done \cup names)
ReachableImports == ReachFrom({cheat.Imports[k] : k \in 1..Len(cheat.Imports)}, {})

\* the names defined by the command or by a module it can reach
DefinedNames ==
    LocalNames \cup
    UNION {{index[mod].Vars[k].Name : k \in 1..Len(index[mod].Vars)} :
              mod \in ReachableImports \cap DOMAIN index}

\* C11: collectVariables returns one variable state per name the scanner
\* finds in the command, in the scanner's order, each Pending with an empty
\* value and prefill; a name defined neither by the command nor by a
\* reachable module (an import name the index lacks gives nothing) has the
\* definition of the name alone, without a value command, and the resolver
\* presents the text entry for it whatever a command run would give.
C11_OneStatePerScannedName ==
    pc = "collected" =>
        LET used == findCommandVars(cheat.Command, NilScope)
        IN  /\ Len(collected) = Len(used)
            /\ \A k \in 1..Len(collected) :
                  /\ collected[k].def.Name = used[k]
                  /\ ~collected[k].resolved
                  /\ collected[k].value = <<>>
                  /\ collected[k].prefill = <<>>
                  /\ used[k] \notin DefinedNames =>
                        /\ collected[k].def = [Name |-> used[k], Shell |-> <<>>]
                        /\ \A run \in SessionRuns :
                              resolveVar(collected[k].def, EmptyMap, <<>>, run).comp
                                  = "prompt"

\* "$b $a $c" with the only import missing from the index and no local
\* definition: three states, each with the definition of the name alone
C11_Witness ==
    /\ pc = "collected"
    /\ cheat.Imports = <<MissingModule>>
    /\ cheat.Vars = <<>>
    /\ Len(collected) = 3
    /\ collected[1].def = [Name |-> <<"b">>, Shell |-> <<>>]
    /\ collected[2].def = [Name |-> <<"a">>, Shell |-> <<>>]
    /\ collected[3].def = [Name |-> <<"c">>, Shell |-> <<>>]
    /\ \A k \in 1..3 : ~collected[k].resolved /\ collected[k].value = <<>>

\* every import name the command or a module of the index lists
AllImportNames ==
    {cheat.Imports[k] : k \in 1..Len(cheat.Imports)} \cup
    UNION {ImportNamesOf(mod) : mod \in DOMAIN index}

\* the longest import list
LongestImports ==
    SetMax({Len(cheat.Imports)} \cup {Len(index[mod].Imports) : mod \in DOMAIN index})

\* what the running calls have left to do: the import names their loops
\* have not looked at, and one return each
RECURSIVE LeftToDo(_)
LeftToDo(st) ==
    IF st = <<>> THEN 0
    ELSE (Len(Head(st).imports) - Head(st).i + 1) + 1 + LeftToDo(Tail(st))

\* a number that every step of collectVariables makes smaller: a new import
\* name costs at most one call with the longest import list
Variant ==
    IF pc = "collected" THEN 0
    ELSE IF pc = "local" THEN 1
    ELSE 2 + LeftToDo(stack)
           + (LongestImports + 2) * Cardinality(AllImportNames \ seen)

\* C12: the traversal ends for every import graph of the index, cyclic and
\* self-importing ones included: until the list is returned a step that moves
\* on is always possible and every step lowers a natural number, so the list is returned
\* after boundedly many steps. A call of collectFromImports for a module
\* starts only for an import name not seen before, which then is seen for
\* good (each name is visited at most once), and the running calls never
\* outnumber the seen names. Once the list is returned the seen names are
\* the reachable import names, and every definition of every reachable
\* module has a definition under its name in the collected map.
C12_ImportTraversalTerminates ==
    /\ [][/\ Variant' < Variant
          /\ seen \subseteq seen'
          /\ Cardinality(seen' \ seen) <= 1
          /\ Len(stack') > Len(stack) =>
                \E name \in (DOMAIN index) \ seen :
                    /\ seen' = seen \cup {name}
                    /\ stack' = Append(stack, [imports |-> index[name].Imports,
                                               i |-> 1])]_allVars
    /\ [](/\ Variant \in Nat
          /\ pc # "collected" =>
                \/ ENABLED <<VisitImport>>_stack
                \/ ENABLED <<ReturnImports>>_stack
                \/ pc = "local"
          /\ Len(stack) <= Cardinality(seen) + 1
          /\ pc = "collected" =>
                /\ seen = ReachableImports
                /\ stack = <<>>
                /\ \A mod \in ReachableImports \cap DOMAIN index :
                      \A k \in 1..Len(index[mod].Vars) :
                          index[mod].Vars[k].Name \in DOMAIN varDefs)

\* the list was returned for a cyclic graph: m1 imports itself and m2, m2
\* imports m1, and the command imports m1
C12_Witness ==
    /\ pc = "collected"
    /\ cheat.Imports = <<"m1">>
    /\ index["m1"].Imports = <<"m1", "m2">>
    /\ index["m2"].Imports = <<"m1">>
    /\ seen = {"m1", "m2"}
    /\ stack = <<>>
    /\ {<<"a">>, <<"b">>} \subseteq DOMAIN varDefs

\* ------------------------------------------ SelectWithTUI as a component

\* candidate lists: the spec's example, a list in which one candidate is part
\* of another, a list with capitals
OptProduction == <<"p", "r", "o", "d", "u", "c", "t", "i", "o", "n">>
OptDevEast == <<"d", "e", "v", "-", "e", "a", "s", "t">>
OptProdDb == <<"p", "r", "o", "d", "-", "d", "b">>
ExampleOptions == <<OptProduction, OptDevEast, OptProdDb>>
SelectorOptions ==
    {ExampleOptions,
     <<<<"x">>, <<"a">>, <<"a", "b">>>>,
     <<<<"A", "b">>, <<"b">>>>}

\* the prefill: the environment variable unset, or set
SelectorPrefills == {<<>>, <<"a">>, <<"p">>}

\* the spec's example filter "pro d"
ExampleFilter == <<"p", "r", "o", " ", "d">>

\* the text typing can leave in the filter field
SelectorTexts == {<<>>, <<"a">>, <<" ", "B", " ">>, ExampleFilter, EXIT}

\* the last message the component handled and the model it had before it,
\* and what SelectWithTUI returned
NoMessage == [key |-> "none", before |-> SelIdle, out |-> Outcome(<<>>, FALSE, "none")]

\* lines 333-339: SelectWithTUI builds the model and runs the program
InitSelect ==
    /\ pc = "tui"
    /\ comp = "select"
    /\ fnArg \in [options : SelectorOptions, prefill : SelectorPrefills]
    /\ selM = newVarSelectModel(fnArg.options, fnArg.prefill)
    /\ fnRes = NoMessage
    /\ vars = <<>>
    /\ currentIdx = 0
    /\ ret = NoRet
    /\ cheatScope = EmptyMap
    /\ shellRes = NotRun
    /\ inpM = InpIdle
    /\ scope = EmptyMap
    /\ lastKey = "none"
    /\ runErr = FALSE
    /\ allEnter = TRUE
    /\ entered = <<>>
    /\ CollIdle

\* what the component's steps leave alone
nonSelVars == <<vars, currentIdx, ret, cheatScope, shellRes, comp, inpM, scope,
                allEnter, entered, fnArg, collVars>>

\* a key message reaches the selector
SelectorKey ==
    /\ pc = "tui"
    /\ \E key \in SelKeys : \E typed \in SelectorTexts :
          LET u == SelUpdate(selM, key, typed)
          IN  /\ selM' = u.m
              /\ pc' = IF u.quit THEN "quit" ELSE "tui"
              /\ lastKey' = IF u.quit THEN key ELSE lastKey
              /\ fnRes' = [fnRes EXCEPT !.key = key, !.before = selM]
    /\ UNCHANGED <<runErr, nonSelVars>>

\* another message (window size, cursor blink) reaches the selector
SelectorOtherMsg ==
    /\ pc = "tui"
    /\ selM' = filterOptions(selM)
    /\ fnRes' = [fnRes EXCEPT !.key = "msg", !.before = selM]
    /\ UNCHANGED <<pc, lastKey, runErr, nonSelVars>>

\* p.Run() returns an error
SelectorFails ==
    /\ pc = "tui"
    /\ pc' = "quit"
    /\ runErr' = TRUE
    /\ lastKey' = "error"
    /\ fnRes' = [fnRes EXCEPT !.key = "error", !.before = selM]
    /\ UNCHANGED <<selM, nonSelVars>>

\* lines 341-353: SelectWithTUI returns
SelectorReturn ==
    /\ pc = "quit"
    /\ pc' = "done"
    /\ fnRes' = [fnRes EXCEPT !.out = SelectWithTUI(selM, runErr)]
    /\ UNCHANGED <<selM, lastKey, runErr, nonSelVars>>

NextSelect ==
    \/ SelectorKey
    \/ SelectorOtherMsg
    \/ SelectorFails
    \/ SelectorReturn

SpecSelect == InitSelect /\ [][NextSelect]_allVars

\* the claims' reading of the filter: a token is a longest run of non-space
\* characters of the lowercased text; a candidate is shown when its
\* lowercased text holds every token
TokenSet(text) ==
    {SubSeq(text, i, j) : <<i, j>> \in
        {r \in (1..Len(text)) \X (1..Len(text)) :
            /\ r[1] <= r[2]
            /\ \A k \in r[1]..r[2] : ~IsSpace(text[k])
            /\ r[1] = 1 \/ IsSpace(text[r[1] - 1])
            /\ r[2] = Len(text) \/ IsSpace(text[r[2] + 1])}}
HoldsText(s, w) == \E i \in 1..(Len(s) - Len(w) + 1) : \A k \in 1..Len(w) : s[i + k - 1] = w[k]
IsShown(opt, text) == \A w \in TokenSet(ToLower(text)) : HoldsText(ToLower(opt), w)
Shown(options, text) == SelectSeq(options, LAMBDA opt : IsShown(opt, text))

\* C13: whenever the selector can handle a key, right after construction
\* included, the shown list is the candidates, in their order, that hold
\* every token of the filter text (compared in lower case); with an empty
\* filter it is every candidate; "pro d" on production, dev-east, prod-db
\* shows production and prod-db.
C13_ShownListIsFilterResult ==
    (pc = "tui" /\ comp = "select") =>
        /\ selM.filtered = Shown(selM.options, selM.textInput)
        /\ TokenSet(selM.textInput) = {} => selM.filtered = selM.options
        /\ (selM.options = ExampleOptions /\ selM.textInput = ExampleFilter) =>
              selM.filtered = <<OptProduction, OptProdDb>>

\* C14: Enter ends the selector with the highlighted candidate's text as the
\* selection when the cursor is below the number of shown candidates, and
\* with the filter field's text when it is not, which is when no candidate
\* is shown; SelectWithTUI then returns that text as the value, without the
\* go back signal and without an error, and the text is not taken for the
\* exit signal.
C14_EnterSubmits ==
    [][/\ (pc = "tui" /\ fnRes'.key = "enter") =>
              /\ pc' = "quit"
              /\ selM.cursor < Len(selM.filtered) =>
                    selM'.selected = selM.filtered[selM.cursor + 1]
              /\ ~(selM.cursor < Len(selM.filtered)) =>
                    /\ selM.filtered = <<>>
                    /\ selM'.selected = selM.textInput
              /\ ~selM'.cancelled
       /\ (pc = "quit" /\ fnRes.key = "enter") =>
              /\ fnRes'.out = [value |-> selM.selected, goBack |-> FALSE,
                               err |-> "nil"]
              /\ ~IsExitValue(fnRes'.out.value)]_allVars

\* the last index of a list of count candidates, 0 for the empty list
LastIndex(count) == IF count - 1 > 0 THEN count - 1 ELSE 0

\* C15: after every message the selector handles without ending (up, down,
\* typing, complete-to-selection, another message) the cursor is between 0
\* and the last index of the shown list; up takes it one down and stops at
\* 0, down takes it one up and stops at the last index.
C15_CursorClamped ==
    [][(pc = "tui" /\ pc' = "tui") =>
          LET last == LastIndex(Len(selM'.filtered))
          IN  /\ selM'.cursor \in 0..last
              /\ fnRes'.key = "up" =>
                    selM'.cursor = IF selM.cursor = 0 THEN 0 ELSE selM.cursor - 1
              /\ fnRes'.key = "down" =>
                    selM'.cursor = IF selM.cursor + 1 > last THEN last
                                   ELSE selM.cursor + 1
              /\ fnRes'.key \in {"up", "down"} => selM'.textInput = selM.textInput]_allVars

\* down was pressed with the cursor on the last of three candidates, and the
\* cursor stayed there
C15_Witness ==
    /\ pc = "tui"
    /\ fnRes.key = "down"
    /\ Len(selM.filtered) = 3
    /\ fnRes.before.cursor = 2
    /\ selM.cursor = 2

\* ------------------------------------------------------------ executeOutput

\* the clipboard helpers copyToClipboard looks for, in its order
ClipboardHelpers == <<"wl-copy", "xclip", "xsel", "pbcopy">>

\* what an invocation did: the texts given to exec.Execute, the texts piped
\* to a clipboard helper, the texts printed on standard output, the notices
\* on standard error, and the returned error
NoOutput == [executed |-> <<>>, piped |-> <<>>, printed |-> <<>>, notices |-> <<>>,
             err |-> "nil"]

\* a clipboard copy that looks for the helpers in the reverse order
copyToClipboard_ReverseOrder(text, available, status) ==
    IF \E k \in 1..Len(ClipboardHelpers) : ClipboardHelpers[k] \in available
    THEN LET k == CHOOSE k \in 1..Len(ClipboardHelpers) :
                      /\ ClipboardHelpers[k] \in available
                      /\ \A l \in (k + 1)..Len(ClipboardHelpers) :
                            ClipboardHelpers[l] \notin available
         IN  [NoOutput EXCEPT !.piped = <<[helper |-> ClipboardHelpers[k],
                                          text |-> text]>>,
                              !.err = status]
    ELSE [NoOutput EXCEPT !.printed = <<text>>]

\* copyToClipboard: the first helper commandExists finds gets the text on
\* its standard input and its Run() error is returned; with no helper the
\* text is printed
copyToClipboard(text, available, status) ==
    IF \E k \in 1..Len(ClipboardHelpers) : ClipboardHelpers[k] \in available
    THEN LET k == CHOOSE k \in 1..Len(ClipboardHelpers) :
                      /\ ClipboardHelpers[k] \in available
                      /\ \A l \in 1..(k - 1) : ClipboardHelpers[l] \notin available
         IN  [NoOutput EXCEPT !.piped = <<[helper |-> ClipboardHelpers[k],
                                          text |-> text]>>,
                              !.err = status]
    ELSE [NoOutput EXCEPT !.printed = <<text>>]

\* lines 251-257: the hooks that are set go around the command
ApplyHooks(command, preHook, postHook) ==
    LET withPre == IF preHook # <<>> THEN preHook \o command ELSE command
    IN  IF postHook # <<>> THEN withPre \o postHook ELSE withPre

\* executeOutput; status is the error the started process (exec.Execute or
\* the clipboard helper) ends with
executeOutput(command, cfg, available, status) ==
    LET finalCmd == ApplyHooks(command, cfg.preHook, cfg.postHook)
    IN  CASE cfg.output = "exec" ->
                [NoOutput EXCEPT !.notices = <<"Executing", finalCmd>>,
                                 !.executed = <<finalCmd>>,
                                 !.err = status]
          [] cfg.output = "copy" ->
                LET c == copyToClipboard(finalCmd, available, status)
                IN  IF c.err # "nil" THEN c
                    ELSE [c EXCEPT !.notices = <<"Copied to clipboard">>]
          [] OTHER -> [NoOutput EXCEPT !.printed = <<finalCmd>>]

\* the spec's example: hooks "set -e; " and " # done" around "ls"
ExamplePreHook == <<"s", "e", "t", " ", "-", "e", ";", " ">>
ExamplePostHook == <<" ", "#", " ", "d", "o", "n", "e">>
ExampleCommand == <<"l", "s">>
ExampleFinal == <<"s", "e", "t", " ", "-", "e", ";", " ", "l", "s", " ", "#", " ", "d", "o", "n", "e">>

\* the configuration values: output modes (an unknown one prints) and hooks
OutputModes == {"exec", "copy", "print", ""}
PreHooks == {<<>>, ExamplePreHook, <<"p">>}
PostHooks == {<<>>, ExamplePostHook}
OutputCommands == {ExampleCommand, <<"a">>, <<>>}

InitOutput ==
    /\ pc = "call"
    /\ fnArg \in [command : OutputCommands,
                  cfg : [preHook : PreHooks, postHook : PostHooks,
                         output : OutputModes],
                  available : SUBSET {ClipboardHelpers[k] :
                                         k \in 1..Len(ClipboardHelpers)},
                  status : {"nil", "exit status 1"}]
    /\ fnRes = NoOutput
    /\ SessionIdle
    /\ CollIdle

\* one call of executeOutput
OutputCall ==
    /\ pc = "call"
    /\ pc' = "done"
    /\ fnRes' = executeOutput(fnArg.command, fnArg.cfg, fnArg.available,
                              fnArg.status)
    /\ UNCHANGED <<fnArg, nonFnVars>>

NextOutput == OutputCall

SpecOutput == InitOutput /\ [][NextOutput]_allVars

\* C16: the text an invocation hands out is the pre-hook, the command and the
\* post-hook in a row (an empty hook adds nothing), and it goes down one
\* path only: in mode exec to the process runner, whose status is returned;
\* in mode copy to the standard input of the first helper present among
\* wl-copy, xclip, xsel, pbcopy, or to standard output, without an error,
\* when none is present; in mode print to standard output. "set -e; ",
\* "ls", " # done" give "set -e; ls # done" in every mode.
C16_OneOutputPath ==
    pc = "done" =>
        LET final == fnArg.cfg.preHook \o fnArg.command \o fnArg.cfg.postHook
            mode  == fnArg.cfg.output
            handed == [k \in 1..Len(fnRes.executed) |-> fnRes.executed[k]]
                      \o [k \in 1..Len(fnRes.piped) |-> fnRes.piped[k].text]
                      \o fnRes.printed
        IN  /\ handed = <<final>>
            /\ mode = "exec" =>
                  fnRes.executed = <<final>> /\ fnRes.err = fnArg.status
            /\ mode = "copy" =>
                  /\ \A k \in 1..Len(ClipboardHelpers) :
                        (/\ ClipboardHelpers[k] \in fnArg.available
                         /\ \A l \in 1..(k - 1) :
                               ClipboardHelpers[l] \notin fnArg.available) =>
                            fnRes.piped = <<[helper |-> ClipboardHelpers[k],
                                            text |-> final]>>
                  /\ fnArg.available = {} =>
                        fnRes.printed = <<final>> /\ fnRes.err = "nil"
            /\ mode = "print" =>
                  fnRes.printed = <<final>> /\ fnRes.err = "nil"
            /\ (/\ fnArg.command = ExampleCommand
                /\ fnArg.cfg.preHook = ExamplePreHook
                /\ fnArg.cfg.postHook = ExamplePostHook) =>
                  handed = <<ExampleFinal>>
            /\ ClipboardHelpers = <<"wl-copy", "xclip", "xsel", "pbcopy">>

\* the example was copied with xsel and pbcopy present: xsel got the text
C16_Witness ==
    /\ pc = "done"
    /\ fnArg.cfg = [preHook |-> ExamplePreHook, postHook |-> ExamplePostHook,
                    output |-> "copy"]
    /\ fnArg.command = ExampleCommand
    /\ fnArg.available = {"xsel", "pbcopy"}
    /\ fnRes.piped = <<[helper |-> "xsel", text |-> ExampleFinal]>>
    /\ fnRes.executed = <<>>
    /\ fnRes.printed = <<>>

\* ------------------------------------------- more claims on the session

\* C17: the cursor is always between -1 and the number of variables. A
\* session that has returned has returned success exactly when the cursor is
\* the number of variables and the go back signal exactly when it is -1, and
\* at either cursor the loop does nothing but return; a component is running
\* only with the cursor on a variable. For an empty list the session
\* returns success at once: no component runs and the command's scope is
\* left as it was.
C17_CursorInRange ==
    /\ [](/\ currentIdx \in -1..Len(vars)
          /\ pc \in {"tui", "quit"} => currentIdx \in 0..(Len(vars) - 1)
          /\ pc = "returned" =>
                /\ (ret = [goBack |-> FALSE, err |-> "nil", exitCode |-> -1])
                      <=> (currentIdx = Len(vars))
                /\ ret.goBack <=> (currentIdx = -1)
          /\ (pc = "returned" /\ Len(vars) = 0) =>
                lastKey = "none" /\ cheatScope = EmptyMap)
    /\ [][/\ (pc = "loop" /\ currentIdx = Len(vars)) =>
                /\ pc' = "returned"
                /\ ret' = [goBack |-> FALSE, err |-> "nil", exitCode |-> -1]
          /\ (pc = "loop" /\ currentIdx = -1) =>
                pc' = "returned" /\ ret'.goBack /\ ret'.err = "nil"
          /\ (pc = "loop" /\ currentIdx \in 0..(Len(vars) - 1)) =>
                pc' \in {"loop", "tui"}
          /\ (pc = "start" /\ Len(vars) = 0) =>
                /\ pc' = "returned"
                /\ ret' = [goBack |-> FALSE, err |-> "nil", exitCode |-> -1]
                /\ cheatScope' = cheatScope
                /\ comp' = "none"]_allVars

\* a session over three variables went back once and then completed: the
\* cursor is 3 and the session returned success
C17_Witness ==
    /\ pc = "returned"
    /\ Len(vars) = 3
    /\ currentIdx = 3
    /\ ~allEnter
    /\ ret = NoRet
    /\ \A i \in 1..3 : vars[i].resolved

\* C18: the Resolved variables are always exactly those below the cursor,
\* and a Pending variable has an empty value. So the loop never finds the
\* variable at the cursor Resolved (the branch that advances without
\* interaction is not taken: no step leads from the loop head back to it),
\* and the scope handed to the resolver holds exactly the variables below
\* the cursor with their values, each the text of the last submission at
\* its step: a submission sets the value of the variable at the cursor and
\* no other, a go back clears the value it invalidates.
C18_ResolvedExactlyBelowCursor ==
    /\ [](/\ \A i \in 1..Len(vars) :
                /\ vars[i].resolved <=> (i - 1 < currentIdx)
                /\ ~vars[i].resolved => vars[i].value = <<>>
          /\ (pc = "loop" /\ currentIdx \in 0..(Len(vars) - 1)) =>
                ~vars[currentIdx + 1].resolved
          /\ pc = "tui" =>
                /\ DOMAIN scope = {vars[i].def.Name : i \in 1..currentIdx}
                /\ \A i \in 1..currentIdx :
                      scope[vars[i].def.Name] = vars[i].value)
    /\ [][/\ pc = "loop" => pc' # "loop"
          /\ (pc = "quit" /\ currentIdx' = currentIdx + 1) =>
                /\ vars'[currentIdx + 1].value = SubmittedText
                /\ \A i \in 1..Len(vars) :
                      i # currentIdx + 1 => vars'[i] = vars[i]
          /\ (pc = "quit" /\ currentIdx' = currentIdx - 1) =>
                \A i \in 1..Len(vars) :
                    vars'[i].value # vars[i].value => vars'[i].value = <<>>]_allVars

\* the first variable was submitted again after a go back and the second
\* one is presented: the scope holds the first variable's new value alone
C18_Witness ==
    /\ pc = "tui"
    /\ Len(vars) = 3
    /\ currentIdx = 1
    /\ ~allEnter
    /\ lastKey = "enter"
    /\ vars[1].value = <<"x">>
    /\ scope = MapPut(EmptyMap, <<"a">>, <<"x">>)
    /\ ~vars[2].resolved /\ ~vars[3].resolved

\* ----------------------------------- resolveVar: the scope in the command

\* s starts with the text w at index i (1-based)
HasAt(s, i, w) == i + Len(w) - 1 <= Len(s) /\ SubSeq(s, i, i + Len(w) - 1) = w

\* strings.ReplaceAll(s, old, new) for a non-empty old: the occurrences of
\* old that do not overlap, from the left
RECURSIVE ReplaceFrom(_, _, _, _)
ReplaceFrom(s, i, old, new) ==
    IF i > Len(s) THEN <<>>
    ELSE IF HasAt(s, i, old) THEN new \o ReplaceFrom(s, i + Len(old), old, new)
    ELSE <<s[i]>> \o ReplaceFrom(s, i + 1, old, new)
ReplaceAll(s, old, new) == ReplaceFrom(s, 1, old, new)

\* lines 211-214 with the range loop visiting the names in this order
RECURSIVE SubstituteScope(_, _, _)
SubstituteScope(shellCmd, sc, order) ==
    IF order = <<>> THEN shellCmd
    ELSE SubstituteScope(ReplaceAll(shellCmd, <<"$">> \o Head(order), sc[Head(order)]),
                         sc, Tail(order))

\* the orders in which a range loop can visit the keys of a map: the Go
\* specification leaves the order open
RangeOrders(sc) ==
    {o \in [1..Cardinality(DOMAIN sc) -> DOMAIN sc] :
        \A k, l \in 1..Cardinality(DOMAIN sc) : k # l => o[k] # o[l]}

\* value commands, names and resolved values: a name that starts another
\* one, a value that holds a reference
SubstShells == StringsUpTo({"$", "a", "b"}, MaxShellLen)
SubstNames == {<<"a">>, <<"b">>, <<"a", "b">>}
SubstValues == {<<>>, <<"1">>, <<"$", "b">>}
SubstScopes == UNION {[names -> SubstValues] : names \in SUBSET SubstNames}

InitSubst ==
    /\ pc = "call"
    /\ fnArg \in [shell : SubstShells, scope : SubstScopes]
    /\ fnRes = [shellCmd |-> <<>>, order |-> <<>>]
    /\ SessionIdle
    /\ CollIdle

\* lines 211-214 of one resolveVar call: the loop runs in one of the orders
SubstCall ==
    /\ pc = "call"
    /\ pc' = "done"
    /\ \E order \in RangeOrders(fnArg.scope) :
          fnRes' = [shellCmd |-> SubstituteScope(fnArg.shell, fnArg.scope, order),
                    order |-> order]
    /\ UNCHANGED <<fnArg, nonFnVars>>

NextSubst == SubstCall

SpecSubst == InitSubst /\ [][NextSubst]_allVars

\* C19: the command text resolveVar hands to exec.RunShell depends on the
\* value command and the scope alone: whatever order the entries of the
\* scope are applied in, the text is the same, also when a name of the scope
\* starts another one or a value holds the reference of another entry.
C19_SubstitutionIsAFunction ==
    pc = "done" =>
        \A order \in RangeOrders(fnArg.scope) :
            SubstituteScope(fnArg.shell, fnArg.scope, order) = fnRes.shellCmd

\* C20: Tab with a candidate under the cursor puts that candidate's text
\* into the filter field and neither submits nor ends the selector, and the
\* same candidate is under the cursor afterwards: Enter as the next key
\* submits the candidate that was under the cursor when Tab was pressed.
C20_TabKeepsHighlighted ==
    [][/\ (/\ pc = "tui"
           /\ fnRes'.key = "tab"
           /\ selM.cursor < Len(selM.filtered)) =>
              /\ pc' = "tui"
              /\ selM'.textInput = selM.filtered[selM.cursor + 1]
              /\ selM'.selected = selM.selected
              /\ ~selM'.cancelled
              /\ selM'.cursor < Len(selM'.filtered)
              /\ selM'.filtered[selM'.cursor + 1] = selM.filtered[selM.cursor + 1]
       /\ (/\ pc = "tui"
           /\ fnRes.key = "tab"
           /\ fnRes'.key = "enter"
           /\ fnRes.before.cursor < Len(fnRes.before.filtered)) =>
              selM'.selected = fnRes.before.filtered[fnRes.before.cursor + 1]]_allVars

\* ------------------------------------------------ the session, running on

\* a key or a failure ends the running component
EndComponent == (SelectKey \/ InputKey \/ ProgramFails) /\ pc' = "quit"

\* resolveAllVariables runs on when it can, and every component the session
\* presents returns
SpecFair ==
    /\ Spec
    /\ WF_allVars(Begin \/ SessionLoop \/ SessionResume)
    /\ WF_allVars(EndComponent)

\* a component has ended with a submission: Enter, without a failure
Submitted == pc = "quit" /\ ~runErr /\ lastKey = "enter"

\* the session has returned success with the cursor past the last variable
Completed ==
    /\ pc = "returned"
    /\ currentIdx = Len(vars)
    /\ ret = [goBack |-> FALSE, err |-> "nil", exitCode |-> -1]

\* C21: with the cursor on a variable the session presents a component
\* whatever the value command gives (none, a failure, no line, one line,
\* several lines), and the component's end is taken as exactly one of a
\* value (the cursor advances by one), a go back (the cursor steps back), an
\* exit of the process or a fatal error; a submission is a value. And from
\* every point of a session with the cursor at or after the first variable:
\* if every component that ends from then on ends with a submission, the
\* session reaches the cursor past the last variable and returns success.
C21_NeverDeadEnds ==
    /\ [][/\ (pc = "loop" /\ currentIdx \in 0..(Len(vars) - 1)) =>
                pc' = "tui" /\ comp' \in {"prompt", "select"}
          /\ pc = "quit" =>
                \/ /\ pc' = "loop"
                   /\ currentIdx' = currentIdx + 1
                   /\ ret' = ret
                \/ /\ pc' = "loop"
                   /\ currentIdx' = currentIdx - 1
                   /\ ret' = ret
                   /\ lastKey = "esc"
                \/ /\ pc' = "exited"
                   /\ currentIdx' = currentIdx
                   /\ lastKey = "ctrl+c"
                \/ /\ pc' = "returned"
                   /\ currentIdx' = currentIdx
                   /\ ret'.err = "tui"
                   /\ runErr
          /\ Submitted => (pc' = "loop" /\ currentIdx' = currentIdx + 1)]_allVars
    /\ []((pc \in {"start", "loop", "tui", "quit"} /\ currentIdx >= 0) =>
            ([](pc = "quit" => Submitted) => <>Completed))

====
